---- MODULE Spec2Model ----
(***************************************************************************)
(* A model of the bogdanfinn-go-wrapper Session: the request executor and  *)
(* its retry driver (wrapper.go, executeRequest / executeWithRetry, and    *)
(* handleResponse of the utilities file), and the cookie / proxy / Close   *)
(* pass-throughs of the Session.  The TLS transport (tls_client.HttpClient)*)
(* is an external collaborator: it is modelled as a stub whose answers are *)
(* chosen by the environment, and whose cookie jar is a store keyed by URL.*)
(***************************************************************************)
EXTENDS Integers, Sequences, FiniteSets, TLC

VARIABLES
    Client,      \* Session.Client: "client" (a live handle) or "nil"
    MaxRetries,  \* Session.MaxRetries, as NewSession stored it
    jar,         \* the transport's cookie jar: [URLs -> Seq(cookie)]
    proxy,       \* the proxy the transport was last given ("" = none)
    server,      \* environment, the transport stub: the cookies the remote
                 \* end may set, and failN, the number of attempts of a
                 \* request call that fail before one succeeds
    pc,          \* position of the calling thread: "idle", "handle", "do",
                 \* "sleep" (inside time.Sleep) or "panic"
    call,        \* the frame of the request call in flight
    hist,        \* what the call in flight (or the last call) has done so far
    ret,         \* what the last finished operation returned to its caller
    closed,      \* history: Close has returned at least once
    fx           \* the last call of a utility made on its own: its
                 \* arguments and what it returned

vars ==
    <<Client, MaxRetries, jar, proxy, server, pc, call, hist, ret, closed,
      fx>>

----------------------------------------------------------------------------
(* Bounds of the model *)

\* the largest retry budget a SessionConfig is given
MaxBudget == 4

\* the most cookies the jar holds for one URL
MaxCookies == 2

----------------------------------------------------------------------------
(* Strings.  TLC strings are atoms, so the string functions of the Go      *)
(* library are given by their values on the strings the model uses.        *)

\* strings.TrimSpace
TrimSpace(s) ==
    CASE s = " " -> ""
      [] s = "  " -> ""
      [] s = " text/plain " -> "text/plain"
      [] OTHER -> s

\* strings.ToLower
ToLower(s) ==
    CASE s = "Content-Type" -> "content-type"
      [] s = "User-Agent" -> "user-agent"
      [] s = "Sec-Ch-Ua" -> "sec-ch-ua"
      [] s = "Sec-Ch-Ua-Platform" -> "sec-ch-ua-platform"
      [] s = "Text/Plain" -> "text/plain"
      [] s = "Multipart/Form-Data" -> "multipart/form-data"
      [] OTHER -> s

\* strings.Contains(contentType, sub), for the three media types formatBody
\* looks for
Contains(s, sub) ==
    CASE sub = "application/x-www-form-urlencoded" ->
            s \in {"application/x-www-form-urlencoded",
                   "text/plain; application/x-www-form-urlencoded"}
      [] sub = "text/plain" ->
            s \in {"text/plain", "text/plain; charset=utf-8",
                   "text/plain; application/x-www-form-urlencoded",
                   "multipart/form-data; text/plain"}
      [] sub = "multipart/form-data" ->
            s \in {"multipart/form-data", "multipart/form-data; boundary=b1",
                   "multipart/form-data; text/plain"}
      [] OTHER -> FALSE

\* a Go map[string]string: nil, or its entries (distinct keys) in the order
\* the caller wrote them; Go itself iterates a map in any order
NilMap == [nil |-> TRUE, entries |-> <<>>]

MapOf(entries) == [nil |-> FALSE, entries |-> entries]

Keys(m) == {m.entries[i][1] : i \in 1..Len(m.entries)}

\* a *int of a SessionConfig
NilInt == [nil |-> TRUE, v |-> 0]

IntPtr(v) == [nil |-> FALSE, v |-> v]

----------------------------------------------------------------------------
(* Values *)

\* the zero Response, and handleResponse's emptyResponse
emptyResponse ==
    [Url |-> "<nil>", Body |-> "", StatusCode |-> 0, Headers |-> "<nil>",
     Cookies |-> <<>>, Error |-> ""]

\* Response{Error: msg}
ErrorResponse(msg) == [emptyResponse EXCEPT !.Error = msg]

NoCookie == [Name |-> "<nil>", Value |-> ""]

----------------------------------------------------------------------------
(* Session defaults (constants.go) and the utilities *)

user_agent == "Mozilla/5.0 Chrome/139.0.0.0"

sech_ua == "\"Chromium\";v=\"139\""

sech_ua_platform == "\"macOS\""

\* Session.UserAgent, Session.SecChUa, Session.SecChUaPlatform of a session
\* made from a config that overrides none of them
UserAgent == user_agent

SecChUa == sech_ua

SecChUaPlatform == sech_ua_platform

getIntOrDefault(value, defaultValue) ==
    IF ~value.nil THEN value.v ELSE defaultValue

\* fmt.Sprintf("...%w", err): outside fmt.Errorf the verb %w is a bad verb
SprintfW(err) == "%!w(" \o err \o ")"

RECURSIVE Join(_, _)
\* strings.Join
Join(parts, sep) ==
    IF parts = <<>> THEN ""
    ELSE IF Len(parts) = 1 THEN parts[1]
    ELSE parts[1] \o sep \o Join(Tail(parts), sep)

\* the permutations of 1..n: the orders in which Go may range over a map of
\* n entries
Perms(n) ==
    {p \in [1..n -> 1..n] : \A i, j \in 1..n : p[i] = p[j] => i = j}

----------------------------------------------------------------------------
(* URL Builder.  Query strings are escaped, joined, split and unescaped    *)
(* character by character, so a query string is a sequence of              *)
(* one-character strings here; Str gives the string it spells.             *)

\* the characters of the strings the model uses as query keys and values
Chars(s) ==
    CASE s = "" -> <<>>
      [] s = " " -> <<" ">>
      [] s = "a" -> <<"a">>
      [] s = "q" -> <<"q">>
      [] s = "1" -> <<"1">>
      [] s = "2" -> <<"2">>
      [] s = "a b" -> <<"a", " ", "b">>
      [] s = "x&y=z" -> <<"x", "&", "y", "=", "z">>
      [] s = "1+1" -> <<"1", "+", "1">>
      [] s = "50%" -> <<"5", "0", "%">>

Str(cs) == Join(cs, "")

\* the byte of a character
Ord(c) ==
    CASE c = " " -> 32  [] c = "%" -> 37  [] c = "&" -> 38  [] c = "+" -> 43
      [] c = "0" -> 48  [] c = "1" -> 49  [] c = "2" -> 50  [] c = "3" -> 51
      [] c = "4" -> 52  [] c = "5" -> 53  [] c = "6" -> 54  [] c = "7" -> 55
      [] c = "8" -> 56  [] c = "9" -> 57  [] c = "=" -> 61
      [] c = "A" -> 65  [] c = "B" -> 66  [] c = "C" -> 67  [] c = "D" -> 68
      [] c = "E" -> 69  [] c = "F" -> 70
      [] c = "a" -> 97  [] c = "b" -> 98  [] c = "q" -> 113
      [] c = "x" -> 120 [] c = "y" -> 121 [] c = "z" -> 122

Alphabet ==
    {" ", "%", "&", "+", "0", "1", "2", "3", "4", "5", "6", "7", "8", "9",
     "=", "A", "B", "C", "D", "E", "F", "a", "b", "q", "x", "y", "z"}

RECURSIVE Less(_, _)
\* a < b, as Go compares strings: byte by byte
Less(a, b) ==
    IF b = <<>> THEN FALSE
    ELSE IF a = <<>> THEN TRUE
    ELSE IF Ord(Head(a)) # Ord(Head(b)) THEN Ord(Head(a)) < Ord(Head(b))
    ELSE Less(Tail(a), Tail(b))

RECURSIVE SortKeys(_)
\* sort.Strings, on a set of keys
SortKeys(S) ==
    IF S = {} THEN <<>>
    ELSE LET m == CHOOSE k \in S : \A o \in S : ~Less(o, k)
         IN <<m>> \o SortKeys(S \ {m})

upperhex == <<"0", "1", "2", "3", "4", "5", "6", "7", "8", "9",
              "A", "B", "C", "D", "E", "F">>

\* shouldEscape(c, encodeQueryComponent): letters and digits are kept
shouldEscape(c) ==
    ~(Ord(c) \in 48..57 \/ Ord(c) \in 65..90 \/ Ord(c) \in 97..122)

RECURSIVE QueryEscape(_)
\* url.QueryEscape: a space becomes "+", any other escaped byte "%XX"
QueryEscape(cs) ==
    IF cs = <<>> THEN <<>>
    ELSE LET c == Head(cs) IN
         (IF ~shouldEscape(c) THEN <<c>>
          ELSE IF c = " " THEN <<"+">>
          ELSE <<"%", upperhex[(Ord(c) \div 16) + 1],
                 upperhex[(Ord(c) % 16) + 1]>>)
         \o QueryEscape(Tail(cs))

ishex(c) == Ord(c) \in 48..57 \/ Ord(c) \in 65..70 \/ Ord(c) \in 97..102

unhex(c) ==
    IF Ord(c) \in 48..57 THEN Ord(c) - 48
    ELSE IF Ord(c) \in 97..102 THEN Ord(c) - 97 + 10
    ELSE Ord(c) - 65 + 10

RECURSIVE EscapesValid(_)
\* the first pass of unescape: every "%" is followed by two hex digits
EscapesValid(cs) ==
    IF cs = <<>> THEN TRUE
    ELSE IF Head(cs) = "%"
    THEN /\ Len(cs) >= 3
         /\ ishex(cs[2])
         /\ ishex(cs[3])
         /\ EscapesValid(SubSeq(cs, 4, Len(cs)))
    ELSE EscapesValid(Tail(cs))

RECURSIVE Unescaped(_)
\* the second pass of unescape
Unescaped(cs) ==
    IF cs = <<>> THEN <<>>
    ELSE IF Head(cs) = "%"
    THEN <<CHOOSE c \in Alphabet :
                Ord(c) = 16 * unhex(cs[2]) + unhex(cs[3])>>
         \o Unescaped(SubSeq(cs, 4, Len(cs)))
    ELSE IF Head(cs) = "+" THEN <<" ">> \o Unescaped(Tail(cs))
    ELSE <<Head(cs)>> \o Unescaped(Tail(cs))

\* url.QueryUnescape
QueryUnescape(cs) ==
    IF EscapesValid(cs) THEN [s |-> Unescaped(cs), err |-> FALSE]
    ELSE [s |-> <<>>, err |-> TRUE]

\* strings.Cut(cs, sep)
Cut(cs, sep) ==
    IF \E i \in 1..Len(cs) : cs[i] = sep
    THEN LET i == CHOOSE i \in 1..Len(cs) :
                    cs[i] = sep /\ \A j \in 1..(i - 1) : cs[j] # sep
         IN [before |-> SubSeq(cs, 1, i - 1),
             after |-> SubSeq(cs, i + 1, Len(cs))]
    ELSE [before |-> cs, after |-> <<>>]

RECURSIVE ParseQuery(_)
\* url.ParseQuery, errors dropped as URL.Query drops them: the (key, value)
\* pairs of a raw query, in the order of the query string
ParseQuery(query) ==
    IF query = <<>> THEN <<>>
    ELSE LET seg == Cut(query, "&")
             kv == Cut(seg.before, "=")
             key == QueryUnescape(kv.before)
             value == QueryUnescape(kv.after)
         IN (IF seg.before = <<>> \/ key.err \/ value.err THEN <<>>
             ELSE << <<key.s, value.s>> >>)
            \o ParseQuery(seg.after)

\* url.Parse, on the URL strings of the model
ParseURL(u) ==
    CASE u = "https://a.test/x" ->
            [err |-> "", path |-> "https://a.test/x", RawQuery |-> <<>>,
             str |-> "https://a.test/x"]
      [] u = "https://a.test/x?q=1" ->
            [err |-> "", path |-> "https://a.test/x",
             RawQuery |-> <<"q", "=", "1">>,
             str |-> "https://a.test/x?q=1"]
      [] u = "https://a.test/x?q=1&a=a+b&q=%26" ->
            [err |-> "", path |-> "https://a.test/x",
             RawQuery |-> <<"q", "=", "1", "&", "a", "=", "a", "+", "b",
                            "&", "q", "=", "%", "2", "6">>,
             str |-> "https://a.test/x?q=1&a=a+b&q=%26"]
      [] u = "http://b.test/" ->
            [err |-> "", path |-> "http://b.test/", RawQuery |-> <<>>,
             str |-> "http://b.test/"]
      [] OTHER ->
            [err |-> "parse \"" \o u \o "\": missing ']' in host",
             path |-> "", RawQuery |-> <<>>, str |-> ""]

\* parsedURL.Query(): a url.Values, kept as its (key, value) pairs, each
\* key's values in the order they were added
Query(RawQuery) == ParseQuery(RawQuery)

RECURSIVE AddParams_Replacing(_, _)
AddParams_Replacing(values, entries) ==
    IF entries = <<>> THEN values
    ELSE LET key == Head(entries)[1]
             value == Head(entries)[2]
         IN IF TrimSpace(key) = ""
            THEN AddParams_Replacing(values, Tail(entries))
            ELSE AddParams_Replacing(
                    Append(SelectSeq(values, LAMBDA p : p[1] # Chars(key)),
                           <<Chars(key), Chars(value)>>),
                    Tail(entries))

RECURSIVE AddParams(_, _)
\* the loop of buildURL: queryParams.Add for every entry with a usable key
AddParams(values, entries) ==
    IF entries = <<>> THEN values
    ELSE LET key == Head(entries)[1]
             value == Head(entries)[2]
         IN IF TrimSpace(key) = ""
            THEN AddParams(values, Tail(entries))
            ELSE AddParams(Append(values, <<Chars(key), Chars(value)>>),
                           Tail(entries))

RECURSIVE EncodePairs(_, _)
EncodePairs(values, keys) ==
    IF keys = <<>> THEN <<>>
    ELSE LET vs == SelectSeq(values, LAMBDA p : p[1] = Head(keys))
         IN [i \in 1..Len(vs) |->
                QueryEscape(Head(keys)) \o <<"=">> \o QueryEscape(vs[i][2])]
            \o EncodePairs(values, Tail(keys))

RECURSIVE JoinChars(_, _)
JoinChars(parts, sep) ==
    IF parts = <<>> THEN <<>>
    ELSE IF Len(parts) = 1 THEN parts[1]
    ELSE parts[1] \o <<sep>> \o JoinChars(Tail(parts), sep)

\* url.Values.Encode: sorted by key, a key's values in their order
Encode(values) ==
    JoinChars(EncodePairs(values,
                SortKeys({values[i][1] : i \in 1..Len(values)})), "&")

\* url is the string returned, RawQuery the query part of that string
buildURL(baseURL, params) ==
    IF TrimSpace(baseURL) = ""
    THEN [url |-> "", RawQuery |-> <<>>, err |-> "baseURL cannot be empty"]
    ELSE LET parsedURL == ParseURL(baseURL) IN
         IF parsedURL.err # ""
         THEN [url |-> "", RawQuery |-> <<>>,
               err |-> "error parsing URL: " \o parsedURL.err]
         ELSE IF params.nil \/ Len(params.entries) = 0
         THEN [url |-> parsedURL.str, RawQuery |-> parsedURL.RawQuery,
               err |-> ""]
         ELSE LET RawQuery ==
                   Encode(AddParams(Query(parsedURL.RawQuery), params.entries))
              IN [url |-> IF RawQuery = <<>> THEN parsedURL.path
                          ELSE parsedURL.path \o "?" \o Str(RawQuery),
                  RawQuery |-> RawQuery, err |-> ""]

----------------------------------------------------------------------------
(* Header Formatter *)

HeaderValue_DefaultOnly(key, value) ==
    LET normalizedKey == ToLower(key) IN
    CASE normalizedKey = "user-agent" /\ value = "default" -> UserAgent
      [] normalizedKey = "sec-ch-ua" /\ value = "default" -> SecChUa
      [] normalizedKey = "sec-ch-ua-platform" /\ value = "default" ->
            SecChUaPlatform
      [] OTHER -> value

\* the value formatHeaders stores for one entry
HeaderValue(key, value) ==
    LET normalizedKey == ToLower(key) IN
    CASE normalizedKey = "user-agent" /\ value \in {"", "default"} -> UserAgent
      [] normalizedKey = "sec-ch-ua" /\ value \in {"", "default"} -> SecChUa
      [] normalizedKey = "sec-ch-ua-platform" /\ value \in {"", "default"} ->
            SecChUaPlatform
      [] OTHER -> value

\* formatHeaders, when the range over the map visits the entries in the
\* order `perm`: the header values by key, and the Header-Order list.  An
\* empty key fails the call in whatever order the entries are visited.
formatHeaders(headers, perm) ==
    IF headers.nil
    THEN [values |-> <<>>, order |-> <<>>, err |-> ""]
    ELSE IF \E k \in Keys(headers) : TrimSpace(k) = ""
    THEN [values |-> <<>>, order |-> <<>>,
          err |-> "header key cannot be empty"]
    ELSE [values |-> [i \in 1..Len(headers.entries) |->
                        <<headers.entries[perm[i]][1],
                          HeaderValue(headers.entries[perm[i]][1],
                                      headers.entries[perm[i]][2])>>],
          order |-> [i \in 1..Len(headers.entries) |->
                        headers.entries[perm[i]][1]],
          err |-> ""]

----------------------------------------------------------------------------
(* Body Encoder.  A body is [kind, str, m]: kind "nil", "string" (str),     *)
(* "map" (a map[string]string, m), "struct" (any other value json.Marshal  *)
(* accepts) or "chan" (a value json.Marshal rejects).                       *)

NilBody == [kind |-> "nil", str |-> "", m |-> NilMap]

StringBody(str) == [kind |-> "string", str |-> str, m |-> NilMap]

MapBody(entries) == [kind |-> "map", str |-> "", m |-> MapOf(entries)]

StructBody == [kind |-> "struct", str |-> "{\"id\":7}", m |-> NilMap]

ChanBody == [kind |-> "chan", str |-> "", m |-> NilMap]

\* the boundaries multipart.NewWriter may draw
Boundaries == {"b1"}

formatFormURLEncoded(body) ==
    IF body.kind # "map"
    THEN [reader |-> "<nil>", contentType |-> "",
          err |-> "body must be map[string]string for application/x-www-form-urlencoded"]
    ELSE [reader |-> Str(Encode([i \in 1..Len(body.m.entries) |->
                                    <<Chars(body.m.entries[i][1]),
                                      Chars(body.m.entries[i][2])>>])),
          contentType |-> "application/x-www-form-urlencoded", err |-> ""]

formatTextPlain(body) ==
    IF body.kind # "string"
    THEN [reader |-> "<nil>", contentType |-> "",
          err |-> "body must be string for text/plain"]
    ELSE [reader |-> body.str, contentType |-> "text/plain", err |-> ""]

formatMultipartFormData_BoundaryOnly(body, boundary, perm) ==
    IF body.kind # "map"
    THEN [reader |-> "<nil>", contentType |-> "",
          err |-> "body must be map[string]string for multipart/form-data"]
    ELSE [reader |-> "--" \o boundary \o "--\r\n",
          contentType |-> boundary, err |-> ""]

\* the fields are written in the order `perm` of the range over the map
formatMultipartFormData(body, boundary, perm) ==
    IF body.kind # "map"
    THEN [reader |-> "<nil>", contentType |-> "",
          err |-> "body must be map[string]string for multipart/form-data"]
    ELSE [reader |->
            Join([i \in 1..Len(body.m.entries) |->
                    "--" \o boundary \o "\r\n" \o body.m.entries[perm[i]][1]
                    \o "\r\n\r\n" \o body.m.entries[perm[i]][2] \o "\r\n"], "")
            \o "--" \o boundary \o "--\r\n",
          contentType |-> "multipart/form-data; boundary=" \o boundary,
          err |-> ""]

\* json.Marshal writes a map's keys sorted
formatJSON(body) ==
    CASE body.kind = "chan" ->
            [reader |-> "<nil>", contentType |-> "",
             err |-> "error marshaling body to JSON: json: unsupported type: chan int"]
      [] body.kind = "string" ->
            [reader |-> "\"" \o body.str \o "\"",
             contentType |-> "application/json", err |-> ""]
      [] body.kind = "map" ->
            [reader |->
                "{" \o Join(
                    LET sorted == SortKeys({Chars(k) : k \in Keys(body.m)})
                        keys == [i \in 1..Len(sorted) |->
                                    CHOOSE k \in Keys(body.m) :
                                        Chars(k) = sorted[i]]
                    IN [i \in 1..Len(keys) |->
                            LET e == CHOOSE j \in 1..Len(body.m.entries) :
                                        body.m.entries[j][1] = keys[i]
                            IN "\"" \o keys[i] \o "\":\""
                               \o body.m.entries[e][2] \o "\""], ",") \o "}",
             contentType |-> "application/json", err |-> ""]
      [] OTHER ->
            [reader |-> body.str, contentType |-> "application/json",
             err |-> ""]

\* the content-types the loop of formatBody may settle on: the range stops
\* at the first key it meets that lower-cases to content-type
DeclaredContentTypes(headers) ==
    LET hits == {i \in 1..Len(headers.entries) :
                    ToLower(headers.entries[i][1]) = "content-type"}
    IN IF hits = {} THEN {""}
       ELSE {ToLower(TrimSpace(headers.entries[i][2])) : i \in hits}

\* the content-type formatBody dispatches on
ResolvedContentType(declared, body) ==
    IF declared # "" THEN declared
    ELSE IF body.kind = "string" THEN "text/plain" ELSE "application/json"

Branch_TextFirst(contentType) ==
    IF Contains(contentType, "text/plain") THEN "text"
    ELSE IF Contains(contentType, "application/x-www-form-urlencoded")
    THEN "form"
    ELSE IF Contains(contentType, "multipart/form-data") THEN "multipart"
    ELSE "json"

\* the switch of formatBody: the encoder a content-type selects
Branch(contentType) ==
    IF Contains(contentType, "application/x-www-form-urlencoded") THEN "form"
    ELSE IF Contains(contentType, "text/plain") THEN "text"
    ELSE IF Contains(contentType, "multipart/form-data") THEN "multipart"
    ELSE "json"

\* the encoder of a branch, applied to the body
Encoded(branch, body, boundary, perm) ==
    CASE branch = "form" -> formatFormURLEncoded(body)
      [] branch = "text" -> formatTextPlain(body)
      [] branch = "multipart" -> formatMultipartFormData(body, boundary, perm)
      [] OTHER -> formatJSON(body)

\* formatBody, when its loop settles on the content-type `declared`
formatBodyAs(declared, body, boundary, perm) ==
    IF body.kind = "nil"
    THEN [reader |-> "<nil>", contentType |-> "", err |-> ""]
    ELSE Encoded(Branch(ResolvedContentType(declared, body)), body,
                 boundary, perm)

\* the outcomes of formatBody(headers, body)
formatBody(headers, body) ==
    {formatBodyAs(declared, body, b, perm) :
        declared \in DeclaredContentTypes(headers), b \in Boundaries,
        perm \in Perms(Len(body.m.entries))}

----------------------------------------------------------------------------
(* The inputs of the model *)

Methods == {"GET", "POST", "PUT", "DELETE", "PATCH", "HEAD", "OPTIONS"}

\* the target URLs of the cookie operations; the jar keeps cookies by URL
URLs == {"https://a.test/x", "http://b.test/"}

\* the RequestOptions the callers pass
RequestInputs ==
    { [Url |-> "https://a.test/x", Headers |-> NilMap, Body |-> NilBody,
       Params |-> NilMap],
      [Url |-> "", Headers |-> NilMap, Body |-> NilBody, Params |-> NilMap],
      [Url |-> " ", Headers |-> NilMap, Body |-> NilBody, Params |-> NilMap],
      [Url |-> "http://[::1", Headers |-> NilMap, Body |-> NilBody,
       Params |-> NilMap],
      [Url |-> "http://b.test/", Headers |-> MapOf(<< <<" ", "x">> >>),
       Body |-> NilBody, Params |-> NilMap],
      [Url |-> "http://b.test/",
       Headers |-> MapOf(<< <<"content-type", "text/plain">> >>),
       Body |-> MapBody(<< <<"a", "1">> >>), Params |-> NilMap],
      [Url |-> "http://b.test/", Headers |-> NilMap, Body |-> ChanBody,
       Params |-> NilMap],
      [Url |-> "https://a.test/x?q=1",
       Headers |-> MapOf(<< <<"User-Agent", "default">>,
                            <<"accept", "*/*">> >>),
       Body |-> StringBody("hi"), Params |-> MapOf(<< <<"q", "2">> >>)],
      [Url |-> "http://b.test/",
       Headers |-> MapOf(<< <<"Content-Type", "multipart/form-data">> >>),
       Body |-> MapBody(<< <<"a", "1">> >>), Params |-> NilMap] }

\* how an attempt fails: Client.Do returns an error ("do"), or the body of
\* the response cannot be read ("read")
Failures ==
    { [kind |-> "do", msg |-> "boom"], [kind |-> "do", msg |-> "EOF"],
      [kind |-> "read", msg |-> "unexpected EOF"] }

StatusCodes == {200, 503}

\* the Location header of a response ("" = none)
Locations == {"", "https://a.test/next"}

\* the retry budgets a SessionConfig may carry
Budgets == {NilInt} \cup {IntPtr(b) : b \in (0 - 1)..MaxBudget}

----------------------------------------------------------------------------
(* State *)

NoCall ==
    [method |-> "",
     request |-> [Url |-> "", Headers |-> NilMap, Body |-> NilBody,
                  Params |-> NilMap],
     req |-> [Method |-> "", URL |-> "", Body |-> "<nil>",
              Header |-> [values |-> <<>>, order |-> <<>>]],
     attempt |-> 0, maxRetries |-> 0, lastResponse |-> emptyResponse,
     afterClose |-> FALSE,
     given |-> [Url |-> "", Headers |-> NilMap, Body |-> NilBody,
                Params |-> NilMap],
     contentType |-> "", bodyRead |-> FALSE]

\* dos: the outcome of every Client.Do of the call, in order ("ok" or the
\* failure); sleeps: the backoff delays slept, in ms; nFormat: the calls of
\* formatHeaders; nStore: the calls of the transport's cookie and proxy
\* methods
\* sent: the bytes the transport could read from req.Body in every
\* Client.Do of the call, in order;
\* errs: the Error of the Response of every handleResponse of the call;
\* exhausted: the call left the retry loop through its end
NoHist ==
    [dos |-> <<>>, sent |-> <<>>, errs |-> <<>>, sleeps |-> <<>>,
     nFormat |-> 0, nStore |-> 0, exhausted |-> FALSE]

\* request: the RequestOptions of a request method, as they are when the
\* method returns (the Headers map is shared with the caller);
\* given: the RequestOptions as the caller passed them;
\* afterClose: Close had returned before the operation was invoked;
\* readAfterClear: set by GetCookies, ClearCookies had returned nil
\* immediately before it was invoked;
\* args: the arguments of GetCookies (targetURL) and GetCookie (name,
\* targetURL)
NoRet ==
    [op |-> "", request |-> NoCall.request, given |-> NoCall.given,
     resp |-> emptyResponse,
     err |-> "", cookies |-> <<>>, cookie |-> NoCookie,
     afterClose |-> FALSE, readAfterClear |-> FALSE, args |-> <<>>]

\* fn: the utility called; its arguments; declared: the content-type the
\* loop of formatBody settled on; fh, fb, built: what formatHeaders,
\* formatBody, buildURL returned; declared2, fb2: the same for a second
\* call of formatBody with the same arguments
NoFx ==
    [fn |-> "", headers |-> NilMap, body |-> NilBody, baseURL |-> "",
     params |-> NilMap, declared |-> "", declared2 |-> "",
     fh |-> [values |-> <<>>, order |-> <<>>, err |-> ""],
     fb |-> [reader |-> "<nil>", contentType |-> "", err |-> ""],
     fb2 |-> [reader |-> "<nil>", contentType |-> "", err |-> ""],
     built |-> [url |-> "", RawQuery |-> <<>>, err |-> ""]]

\* tls_client.NewCookieJar(): an empty jar.  The constructor never returns
\* nil, so the nil checks of NewSession and ClearCookies never fire.
NewCookieJar == [u \in URLs |-> <<>>]

\* NewSession(config): the state after construction
NewSession(config, remote) ==
    /\ Client = "client"
    /\ MaxRetries = getIntOrDefault(config.MaxRetries, 3)
    /\ jar = NewCookieJar
    /\ proxy = ""
    /\ server = remote
    /\ pc = "idle"
    /\ call = NoCall
    /\ hist = NoHist
    /\ ret = NoRet
    /\ closed = FALSE
    /\ fx = NoFx

IsValid_Always == TRUE

\* Session.IsValid, for a non-nil *Session
IsValid == Client # "nil"

----------------------------------------------------------------------------
(* Retry Driver: executeWithRetry and handleResponse *)

EffectiveRetries_NoClamp(n) == n

\* maxRetries of executeWithRetry: at least one attempt
EffectiveRetries(n) == IF n <= 0 THEN 1 ELSE n

BackoffDelay_Exponential(attempt) == 100 * (2 ^ attempt)

\* the delay of time.Sleep after the failed attempt `attempt`, in ms
BackoffDelay(attempt) == 100 * (attempt + 1)

\* "Don't wait on the last attempt"
SleepsAfter(attempt, maxRetries) == attempt < maxRetries - 1

LoopContinues_OffByOne(attempt, maxRetries) == attempt < maxRetries - 1

LoopContinues_Forever(attempt, maxRetries) == TRUE

\* the loop condition of executeWithRetry
LoopContinues(attempt, maxRetries) == attempt < maxRetries

\* the error of the response returned when all retries failed
RetriesExceeded(maxRetries, lastError) ==
    "max retries (" \o ToString(maxRetries) \o ") exceeded: " \o lastError

DoErrorResponse_Bare(msg) == [emptyResponse EXCEPT !.Error = msg]

\* handleResponse: Client.Do returned err
DoErrorResponse(msg) ==
    [emptyResponse EXCEPT !.Error = "Request error: " \o msg]

ReadErrorResponse_KeepsStatus(status, msg) ==
    [emptyResponse EXCEPT !.Error = "Error reading response body: " \o msg,
                          !.StatusCode = status]

\* handleResponse: io.ReadAll returned err, after a response with `status`
ReadErrorResponse(status, msg) ==
    [emptyResponse EXCEPT !.Error = "Error reading response body: " \o msg]

\* handleResponse: the Response of a successful attempt
OkResponse(reqURL, status, location, cookies) ==
    [Url |-> IF location # "" THEN location ELSE reqURL,
     Body |-> "body", StatusCode |-> status, Headers |-> "header",
     Cookies |-> cookies, Error |-> ""]

Succeeded_UnlessSessionError(resp) ==
    resp.Error \notin {"Request error: EOF",
                       "Error reading response body: unexpected EOF"}

\* "if resp.Error == \"\"": the attempt ends the call
Succeeded(resp) == resp.Error = ""

LastResponse_First(lastResponse, resp) ==
    IF lastResponse.Error = "" THEN resp ELSE lastResponse

\* "lastResponse = resp"
LastResponse(lastResponse, resp) == resp

\* the request method of frame c returns resp to its caller
Finish(c, resp, h) ==
    /\ pc' = "idle"
    /\ call' = NoCall
    /\ hist' = h
    /\ ret' = [NoRet EXCEPT !.op = c.method, !.request = c.request,
                            !.given = c.given, !.resp = resp,
                            !.afterClose = c.afterClose]

\* the loop condition and, when the loop ends, the rewrapped last response
LoopTest(c, h) ==
    IF LoopContinues(c.attempt, c.maxRetries)
    THEN /\ pc' = "handle"
         /\ call' = c
         /\ hist' = h
         /\ ret' = NoRet
    ELSE Finish(c, [c.lastResponse EXCEPT
                       !.Error = RetriesExceeded(c.maxRetries, @)],
                [h EXCEPT !.exhausted = TRUE])

\* attempt++, then the loop condition
NextIteration(c, h) == LoopTest([c EXCEPT !.attempt = @ + 1], h)

\* the body of the retry loop after handleResponse returned resp
AfterAttempt(c, resp, h0) ==
    LET h == [h0 EXCEPT !.errs = Append(@, resp.Error)] IN
    IF Succeeded(resp)
    THEN Finish(c, resp, h)
    ELSE IF SleepsAfter(c.attempt, c.maxRetries)
    THEN /\ pc' = "sleep"
         /\ call' = [c EXCEPT !.lastResponse = LastResponse(@, resp)]
         /\ hist' = [h EXCEPT !.sleeps = Append(@, BackoffDelay(c.attempt))]
         /\ ret' = NoRet
    ELSE NextIteration([c EXCEPT !.lastResponse = LastResponse(@, resp)], h)

\* handleResponse up to req.Header = headers
HandleResponse ==
    /\ pc = "handle"
    /\ IF ~IsValid
       THEN AfterAttempt(call, ErrorResponse("Session or client is nil"),
                         hist)
       ELSE \E perm \in Perms(Len(call.request.Headers.entries)) :
            LET fh == formatHeaders(call.request.Headers, perm)
                h == [hist EXCEPT !.nFormat = @ + 1]
            IN IF fh.err # ""
               THEN AfterAttempt(
                        call,
                        ErrorResponse("Error formatting headers: " \o fh.err),
                        h)
               ELSE /\ pc' = "do"
                    /\ call' = [call EXCEPT !.req.Header =
                                  [values |-> fh.values, order |-> fh.order]]
                    /\ hist' = h
                    /\ ret' = NoRet
    /\ UNCHANGED <<Client, MaxRetries, jar, proxy, server, closed, fx>>

\* the jar has room for cookie c of `site`
Fits(j, site, c) ==
    \/ c = NoCookie
    \/ \E i \in 1..Len(j[site]) : j[site][i].Name = c.Name
    \/ Len(j[site]) < MaxCookies

\* the jar after the transport stored cookie c for `site`: a cookie replaces
\* the one of the same name
StoreCookie(j, site, c) ==
    IF c = NoCookie THEN j
    ELSE IF \E i \in 1..Len(j[site]) : j[site][i].Name = c.Name
    THEN [j EXCEPT ![site] =
            [i \in 1..Len(@) |-> IF @[i].Name = c.Name THEN c ELSE @[i]]]
    ELSE [j EXCEPT ![site] = Append(@, c)]

\* what is left to read of the body of req: http.NewRequest wraps the
\* reader of formatBody once, and a reader that was read is at its end
Unread(c) == IF c.bodyRead THEN "" ELSE c.req.Body

\* whether the reader of req.Body is at its end after a Client.Do of kind
\* `kind`: a request that was answered was written whole; a Client.Do that
\* fails may have written the body or not
ReadAfter(c, kind) ==
    IF c.req.Body = "<nil>" THEN {FALSE}
    ELSE IF kind = "do" THEN {c.bodyRead, TRUE}
    ELSE {TRUE}

\* handleResponse from Client.Do on: the transport fails the first
\* server.failN calls of a request call and answers the next
DoRequest ==
    /\ pc = "do"
    /\ IF Client = "nil"
       THEN /\ pc' = "panic"
            /\ UNCHANGED <<call, hist, ret, jar>>
       ELSE LET site == ParseURL(call.request.Url).path
                SetCookie ==
                    {NoCookie}
                    \cup {c \in server.cookies : Fits(jar, site, c)}
                h0 == [hist EXCEPT !.sent = Append(@, Unread(call))]
            IN
            IF Len(hist.dos) < server.failN
            THEN \E f \in Failures :
                 \E read \in ReadAfter(call, f.kind) :
                 LET h == [h0 EXCEPT !.dos = Append(@, f)]
                     c == [call EXCEPT !.bodyRead = read]
                 IN
                 IF f.kind = "do"
                 THEN /\ AfterAttempt(c, DoErrorResponse(f.msg), h)
                      /\ jar' = jar
                 ELSE \E status \in StatusCodes, ck \in SetCookie :
                      /\ AfterAttempt(c, ReadErrorResponse(status, f.msg), h)
                      /\ jar' = StoreCookie(jar, site, ck)
            ELSE \E status \in StatusCodes, location \in Locations,
                    ck \in SetCookie :
                 /\ AfterAttempt(
                        call,
                        OkResponse(call.req.URL, status, location,
                                   IF ck = NoCookie THEN <<>> ELSE <<ck>>),
                        [h0 EXCEPT !.dos =
                            Append(@, [kind |-> "ok", msg |-> ""])])
                 /\ jar' = StoreCookie(jar, site, ck)
    /\ UNCHANGED <<Client, MaxRetries, proxy, server, closed, fx>>

\* time.Sleep returns
Wake ==
    /\ pc = "sleep"
    /\ NextIteration(call, hist)
    /\ UNCHANGED <<Client, MaxRetries, jar, proxy, server, closed, fx>>

----------------------------------------------------------------------------
(* Request Executor *)

\* request.Headers[key] = value
SetKey(m, key, value) ==
    IF \E i \in 1..Len(m.entries) : m.entries[i][1] = key
    THEN MapOf([i \in 1..Len(m.entries) |->
                  IF m.entries[i][1] = key THEN <<key, value>>
                  ELSE m.entries[i]])
    ELSE MapOf(Append(m.entries, <<key, value>>))

UpdatesContentType_Always(contentType, headers) ==
    contentType # "" /\ ~headers.nil

\* "Update content-type header if needed (for multipart)": the executor
\* writes the encoder's content-type into the caller's Headers
UpdatesContentType(contentType, headers) ==
    /\ contentType # ""
    /\ ~headers.nil
    /\ Contains(contentType, "multipart/form-data")

\* executeRequest returns resp before any attempt
FailFast(method, request, resp) ==
    /\ pc' = "idle"
    /\ call' = NoCall
    /\ hist' = NoHist
    /\ ret' = [NoRet EXCEPT !.op = method, !.request = request,
                            !.given = request, !.resp = resp,
                            !.afterClose = closed]

\* executeRequest, up to the first attempt of executeWithRetry.
\* http.NewRequest does not fail: the method is one of the net/http constants
\* and the URL has just been parsed.
executeRequest(method, request) ==
    /\ pc = "idle"
    /\ IF ~IsValid
       THEN FailFast(method, request,
                     ErrorResponse("session or client is nil"))
       ELSE IF TrimSpace(request.Url) = ""
       THEN FailFast(method, request, ErrorResponse("URL cannot be empty"))
       ELSE LET built == buildURL(request.Url, request.Params) IN
       IF built.err # ""
       THEN FailFast(method, request,
                ErrorResponse("error parsing URL: " \o SprintfW(built.err)))
       ELSE \E fb \in formatBody(request.Headers, request.Body) :
       IF fb.err # ""
       THEN FailFast(method, request,
                ErrorResponse("error formatting body: " \o SprintfW(fb.err)))
       ELSE LoopTest(
              [method |-> method,
               request |->
                 IF UpdatesContentType(fb.contentType, request.Headers)
                 THEN [request EXCEPT !.Headers =
                         SetKey(@, "content-type", fb.contentType)]
                 ELSE request,
               req |-> [Method |-> method, URL |-> built.url,
                        Body |-> fb.reader,
                        Header |-> [values |-> <<>>, order |-> <<>>]],
               attempt |-> 0,
               maxRetries |-> EffectiveRetries(MaxRetries),
               lastResponse |-> emptyResponse,
               afterClose |-> closed,
               given |-> request,
               contentType |-> fb.contentType,
               bodyRead |-> FALSE],
              NoHist)
    /\ UNCHANGED <<Client, MaxRetries, jar, proxy, server, closed, fx>>

Get == \E request \in RequestInputs : executeRequest("GET", request)

Post == \E request \in RequestInputs : executeRequest("POST", request)

Put == \E request \in RequestInputs : executeRequest("PUT", request)

Delete == \E request \in RequestInputs : executeRequest("DELETE", request)

Patch == \E request \in RequestInputs : executeRequest("PATCH", request)

\* Session.Head (Head is the name of an operator of Sequences)
HeadRequest ==
    \E request \in RequestInputs : executeRequest("HEAD", request)

Options == \E request \in RequestInputs : executeRequest("OPTIONS", request)

----------------------------------------------------------------------------
(* Session cookie and proxy management *)

CookieNames == {"sid", "", " "}

\* the cookies SetCookiesWithOptions is given (NoCookie: a nil *http.Cookie)
CookieInputs ==
    {NoCookie, [Name |-> " ", Value |-> "1"], [Name |-> "sid", Value |-> "1"]}

\* the cookies the remote end sets
ServerCookies == {[Name |-> "srv", Value |-> "s"]}

ProxyInputs == {"", " ", "http://p.test:8080", "http://[::1"}

\* url.Parse(proxy) fails
ProxyParseFails(p) == p = "http://[::1"

\* an operation that is a single call returns: n is the number of calls it
\* made to the transport's cookie and proxy methods
Done(r, n) ==
    /\ pc' = "idle"
    /\ call' = NoCall
    /\ hist' = [NoHist EXCEPT !.nStore = n]
    /\ ret' = [r EXCEPT !.afterClose = closed]

\* the cookie SetCookies builds; the jar hands back a cookie's name and value
NewCookie(name, value) == [Name |-> name, Value |-> value]

SetCookies(name, value, targetURL) ==
    /\ pc = "idle"
    /\ LET r == [NoRet EXCEPT !.op = "SetCookies"] IN
       IF ~IsValid
       THEN Done([r EXCEPT !.err = "session or client is nil"], 0)
            /\ jar' = jar
       ELSE IF TrimSpace(name) = ""
       THEN Done([r EXCEPT !.err = "cookie name cannot be empty"], 0)
            /\ jar' = jar
       ELSE IF targetURL = "<nil>"
       THEN Done([r EXCEPT !.err = "target URL cannot be nil"], 0)
            /\ jar' = jar
       ELSE /\ Fits(jar, targetURL, NewCookie(name, value))
            /\ Done(r, 1)
            /\ jar' = StoreCookie(jar, targetURL, NewCookie(name, value))
    /\ UNCHANGED <<Client, MaxRetries, proxy, server, closed, fx>>

SetCookiesWithOptions(cookie, targetURL) ==
    /\ pc = "idle"
    /\ LET r == [NoRet EXCEPT !.op = "SetCookiesWithOptions"] IN
       IF ~IsValid
       THEN Done([r EXCEPT !.err = "session or client is nil"], 0)
            /\ jar' = jar
       ELSE IF cookie = NoCookie
       THEN Done([r EXCEPT !.err = "cookie cannot be nil"], 0)
            /\ jar' = jar
       ELSE IF targetURL = "<nil>"
       THEN Done([r EXCEPT !.err = "target URL cannot be nil"], 0)
            /\ jar' = jar
       ELSE IF TrimSpace(cookie.Name) = ""
       THEN Done([r EXCEPT !.err = "cookie name cannot be empty"], 0)
            /\ jar' = jar
       ELSE /\ Fits(jar, targetURL, cookie)
            /\ Done(r, 1)
            /\ jar' = StoreCookie(jar, targetURL, cookie)
    /\ UNCHANGED <<Client, MaxRetries, proxy, server, closed, fx>>

SetProxy(p) ==
    /\ pc = "idle"
    /\ LET r == [NoRet EXCEPT !.op = "SetProxy"] IN
       IF ~IsValid
       THEN Done([r EXCEPT !.err = "session or client is nil"], 0)
            /\ proxy' = proxy
       ELSE IF TrimSpace(p) = ""
       THEN Done([r EXCEPT !.err = "proxy URL cannot be empty"], 0)
            /\ proxy' = proxy
       ELSE IF ProxyParseFails(p)
       THEN Done([r EXCEPT !.err = "invalid proxy URL format: "
                                   \o ParseURL(p).err], 0)
            /\ proxy' = proxy
       ELSE /\ Done(r, 1)
            /\ proxy' = p
    /\ UNCHANGED <<Client, MaxRetries, jar, server, closed, fx>>

ClearedJar_Kept(j) == j

\* the jar of the client after s.Client.SetCookieJar(tls_client.NewCookieJar())
ClearedJar(j) == NewCookieJar

ClearCookies ==
    /\ pc = "idle"
    /\ LET r == [NoRet EXCEPT !.op = "ClearCookies"] IN
       IF ~IsValid
       THEN Done([r EXCEPT !.err = "session or client is nil"], 0)
            /\ jar' = jar
       ELSE /\ Done(r, 1)
            /\ jar' = ClearedJar(jar)
    /\ UNCHANGED <<Client, MaxRetries, proxy, server, closed, fx>>

\* the cookies of GetCookies: those of the transport with a usable name
ValidCookies(cookies) ==
    SelectSeq(cookies, LAMBDA cookie :
                cookie # NoCookie /\ TrimSpace(cookie.Name) # "")

GetCookies(targetURL) ==
    /\ pc = "idle"
    /\ LET r == [NoRet EXCEPT !.op = "GetCookies", !.args = <<targetURL>>,
                   !.readAfterClear =
                       (ret.op = "ClearCookies" /\ ret.err = "")] IN
       IF ~IsValid
       THEN Done([r EXCEPT !.err = "session or client is nil"], 0)
       ELSE Done([r EXCEPT !.cookies = ValidCookies(jar[targetURL])], 1)
    /\ UNCHANGED <<Client, MaxRetries, jar, proxy, server, closed, fx>>

\* cookie != nil && cookie.Name == name
Named(cookie, name) == cookie # NoCookie /\ cookie.Name = name

FirstNamed_Last(cookies, name) ==
    IF \E i \in 1..Len(cookies) : Named(cookies[i], name)
    THEN cookies[CHOOSE i \in 1..Len(cookies) :
                    /\ Named(cookies[i], name)
                    /\ \A j \in (i + 1)..Len(cookies) :
                            ~Named(cookies[j], name)]
    ELSE NoCookie

\* the first cookie named `name`, or nil
FirstNamed(cookies, name) ==
    IF \E i \in 1..Len(cookies) : Named(cookies[i], name)
    THEN cookies[CHOOSE i \in 1..Len(cookies) :
                    /\ Named(cookies[i], name)
                    /\ \A j \in 1..(i - 1) : ~Named(cookies[j], name)]
    ELSE NoCookie

GetCookie(name, targetURL) ==
    /\ pc = "idle"
    /\ LET r == [NoRet EXCEPT !.op = "GetCookie",
                              !.args = <<name, targetURL>>] IN
       IF ~IsValid
       THEN Done(r, 0)
       ELSE IF TrimSpace(name) = ""
       THEN Done(r, 0)
       ELSE Done([r EXCEPT !.cookie = FirstNamed(jar[targetURL], name)], 1)
    /\ UNCHANGED <<Client, MaxRetries, jar, proxy, server, closed, fx>>

ReleasedClient_Kept == "client"

\* s.Client = nil
ReleasedClient == "nil"

\* Close: on a usable session ClearCookies, then the handle is released
Close ==
    /\ pc = "idle"
    /\ LET r == [NoRet EXCEPT !.op = "Close"] IN
       IF ~IsValid
       THEN /\ Done(r, 0)
            /\ UNCHANGED <<Client, jar>>
       ELSE /\ Done(r, 1)
            /\ jar' = ClearedJar(jar)
            /\ Client' = ReleasedClient
    /\ closed' = TRUE
    /\ UNCHANGED <<MaxRetries, proxy, server, fx>>

\* Close called on another thread while a request call is in flight: the
\* Session has no lock, so it runs between any two steps of the request
\* call.  What it returns goes to its own caller, not to the request's.
CloseConcurrently ==
    /\ pc \in {"handle", "do", "sleep"}
    /\ IsValid
    /\ jar' = ClearedJar(jar)
    /\ Client' = ReleasedClient
    /\ closed' = TRUE
    /\ UNCHANGED <<MaxRetries, proxy, server, pc, call, hist, ret, fx>>

----------------------------------------------------------------------------
(* The utilities called on their own: formatHeaders, formatBody and        *)
(* buildURL are functions of their arguments (and of the order in which Go *)
(* ranges over a map); a behaviour makes one such call                     *)

HeaderKeyInputs == {"User-Agent", "sec-ch-ua", "Sec-Ch-Ua-Platform", "accept"}

HeaderValueInputs == {"", "default", "curl/8"}

HeaderEntries == HeaderKeyInputs \X HeaderValueInputs

\* the header maps formatHeaders is given
HeaderInputs ==
    {NilMap, MapOf(<<>>), MapOf(<< <<" ", "x">> >>),
     MapOf(<< <<"accept", "*/*">>, <<"", "x">> >>),
     MapOf(<< <<"User-Agent", "default">>, <<"sec-ch-ua", "">>,
              <<"accept", "default">> >>)}
    \cup {MapOf(<<e>>) : e \in HeaderEntries}
    \cup {MapOf(<<p[1], p[2]>>) :
            p \in {q \in HeaderEntries \X HeaderEntries : q[1][1] # q[2][1]}}

\* the values of a content-type header
ContentTypeInputs ==
    {"application/json", "application/xml",
     "application/x-www-form-urlencoded", "text/plain", "Text/Plain",
     " text/plain ", "text/plain; charset=utf-8", "multipart/form-data",
     "Multipart/Form-Data", "text/plain; application/x-www-form-urlencoded",
     "multipart/form-data; text/plain", "", " "}

\* the header maps formatBody is given
BodyHeaderInputs ==
    {NilMap, MapOf(<<>>), MapOf(<< <<"accept", "*/*">> >>),
     MapOf(<< <<"Content-Type", "text/plain">>,
              <<"content-type", "application/json">> >>)}
    \cup {MapOf(<< <<k, v>> >>) :
            k \in {"Content-Type", "content-type"}, v \in ContentTypeInputs}

BodyInputs ==
    {NilBody, StringBody("hi"), MapBody(<< <<"a", "1">> >>),
     MapBody(<< <<"q", "1">>, <<"a", "2">> >>), StructBody, ChanBody}

BaseURLInputs ==
    {"https://a.test/x", "https://a.test/x?q=1",
     "https://a.test/x?q=1&a=a+b&q=%26", "", " ", "http://[::1"}

ParamKeys == {"q", "a", "a b", " ", ""}

ParamValues == {"1", "x&y=z", "1+1", "50%", ""}

ParamEntries == ParamKeys \X ParamValues

\* the extra-parameter maps buildURL is given
ParamInputs ==
    {NilMap, MapOf(<<>>)}
    \cup {MapOf(<<e>>) : e \in ParamEntries}
    \cup {MapOf(<<p[1], p[2]>>) :
            p \in {q \in ParamEntries \X ParamEntries : q[1][1] # q[2][1]}}

CallFormatHeaders ==
    \E headers \in HeaderInputs :
    \E perm \in Perms(Len(headers.entries)) :
        /\ fx = NoFx
        /\ fx' = [NoFx EXCEPT !.fn = "formatHeaders", !.headers = headers,
                              !.fh = formatHeaders(headers, perm)]
        /\ UNCHANGED <<Client, MaxRetries, jar, proxy, server, pc, call, hist,
                       ret, closed>>

CallFormatBody ==
    \E headers \in BodyHeaderInputs, body \in BodyInputs, b \in Boundaries :
    \E declared \in DeclaredContentTypes(headers),
       perm \in Perms(Len(body.m.entries)) :
        /\ fx = NoFx
        /\ fx' = [NoFx EXCEPT !.fn = "formatBody", !.headers = headers,
                              !.body = body, !.declared = declared,
                              !.fb = formatBodyAs(declared, body, b, perm)]
        /\ UNCHANGED <<Client, MaxRetries, jar, proxy, server, pc, call, hist,
                       ret, closed>>

\* formatBody called twice with the same headers and body: each call
\* ranges over the map in an order of its own
CallFormatBodyTwice ==
    \E headers \in BodyHeaderInputs, body \in BodyInputs, b \in Boundaries :
    \E declared \in DeclaredContentTypes(headers),
       declared2 \in DeclaredContentTypes(headers),
       perm \in Perms(Len(body.m.entries)) :
        /\ fx = NoFx
        /\ fx' = [NoFx EXCEPT !.fn = "formatBody twice",
                              !.headers = headers, !.body = body,
                              !.declared = declared,
                              !.fb = formatBodyAs(declared, body, b, perm),
                              !.declared2 = declared2,
                              !.fb2 = formatBodyAs(declared2, body, b, perm)]
        /\ UNCHANGED <<Client, MaxRetries, jar, proxy, server, pc, call, hist,
                       ret, closed>>

CallBuildURL ==
    \E baseURL \in BaseURLInputs, params \in ParamInputs :
        /\ fx = NoFx
        /\ fx' = [NoFx EXCEPT !.fn = "buildURL", !.baseURL = baseURL,
                              !.params = params,
                              !.built = buildURL(baseURL, params)]
        /\ UNCHANGED <<Client, MaxRetries, jar, proxy, server, pc, call, hist,
                       ret, closed>>

\* the RequestOptions of the callers that set a content-type
ExecInputs ==
    {[Url |-> "http://b.test/", Headers |-> headers, Body |-> body,
      Params |-> NilMap] :
        headers \in
            {NilMap, MapOf(<< <<"accept", "*/*">> >>),
             MapOf(<< <<"content-type", "multipart/form-data">>,
                      <<"accept", "*/*">> >>)}
            \cup {MapOf(<< <<k, v>> >>) :
                    k \in {"Content-Type", "content-type"},
                    v \in {"application/json", "text/plain", "Text/Plain",
                           "application/x-www-form-urlencoded",
                           "multipart/form-data", "Multipart/Form-Data"}},
        body \in {NilBody, StringBody("hi"), MapBody(<< <<"a", "1">> >>),
                  StructBody}}

\* Post or Put with these RequestOptions
Exec ==
    \E method \in {"POST", "PUT"}, request \in ExecInputs :
        executeRequest(method, request)

----------------------------------------------------------------------------
(* Specifications *)

\* a session made by NewSession(nil): the default retry budget; the remote
\* end sets cookies and fails no attempt or the first one of a call
Init ==
    \E n \in 0..1 :
        NewSession([MaxRetries |-> NilInt],
                   [cookies |-> ServerCookies, failN |-> n])

Request ==
    \/ Get
    \/ Post
    \/ Put
    \/ Delete
    \/ Patch
    \/ HeadRequest
    \/ Options
    \/ HandleResponse
    \/ DoRequest
    \/ Wake

Next ==
    \/ Request
    \/ \E name \in CookieNames, targetURL \in URLs \cup {"<nil>"} :
          SetCookies(name, "1", targetURL)
    \/ \E cookie \in CookieInputs, targetURL \in URLs \cup {"<nil>"} :
          SetCookiesWithOptions(cookie, targetURL)
    \/ \E p \in ProxyInputs : SetProxy(p)
    \/ ClearCookies
    \/ \E targetURL \in URLs : GetCookies(targetURL)
    \/ \E name \in CookieNames, targetURL \in URLs : GetCookie(name, targetURL)
    \/ Close

Spec == Init /\ [][Next]_vars

\* a session made by NewSession(config) with any retry budget, used for
\* requests and closed
InitRetry ==
    \E budget \in Budgets, n \in 0..MaxBudget :
        NewSession([MaxRetries |-> budget], [cookies |-> {}, failN |-> n])

NextRetry ==
    \/ Request
    \/ Close

SpecRetry == InitRetry /\ [][NextRetry]_vars

\* SpecRetry, with a calling thread that keeps running: handleResponse
\* goes on, every Client.Do returns, every time.Sleep ends
SpecRetryLive ==
    /\ SpecRetry
    /\ WF_vars(HandleResponse)
    /\ WF_vars(DoRequest)
    /\ WF_vars(Wake)

\* the utilities, each called on its own with any of its inputs
InitFormat ==
    NewSession([MaxRetries |-> NilInt], [cookies |-> {}, failN |-> 0])

NextFormat ==
    \/ CallFormatHeaders
    \/ CallFormatBody
    \/ CallFormatBodyTwice
    \/ CallBuildURL

SpecFormat == InitFormat /\ [][NextFormat]_vars

\* a session with the default retry budget, used for requests that carry
\* bodies and content-type headers
InitExec ==
    \E n \in 0..1 :
        NewSession([MaxRetries |-> NilInt], [cookies |-> {}, failN |-> n])

NextExec ==
    \/ Exec
    \/ HandleResponse
    \/ DoRequest
    \/ Wake

SpecExec == InitExec /\ [][NextExec]_vars

\* a session shared by two threads: one makes request calls, the other
\* closes the session at any moment
InitRace ==
    \E n \in 0..1 :
        NewSession([MaxRetries |-> NilInt], [cookies |-> {}, failN |-> n])

NextRace ==
    \/ Get
    \/ Post
    \/ HandleResponse
    \/ DoRequest
    \/ Wake
    \/ Close
    \/ CloseConcurrently

SpecRace == InitRace /\ [][NextRace]_vars

\* the cookies the transport's store may hold for a URL: set by the remote
\* end or through Session.Client, several may share a name (they differ in
\* path) and a name may be empty or blank
StoredCookies ==
    {[Name |-> "sid", Value |-> "1"], [Name |-> "sid", Value |-> "2"],
     [Name |-> "srv", Value |-> "s"], [Name |-> " ", Value |-> "1"],
     [Name |-> "", Value |-> "2"]}

\* the stores of up to n cookies
Stores(n) == UNION {[1..k -> StoredCookies] : k \in 0..n}

\* a session whose transport holds cookies, read with GetCookies and
\* GetCookie
InitCookies ==
    \E held \in Stores(MaxCookies + 1) :
        /\ Client = "client"
        /\ MaxRetries = 3
        /\ jar = [u \in URLs |->
                    IF u = "https://a.test/x" THEN held
                    ELSE << [Name |-> "sid", Value |-> "9"] >>]
        /\ proxy = ""
        /\ server = [cookies |-> {}, failN |-> 0]
        /\ pc = "idle"
        /\ call = NoCall
        /\ hist = NoHist
        /\ ret = NoRet
        /\ closed = FALSE
        /\ fx = NoFx

NextCookies ==
    \/ \E targetURL \in URLs : GetCookies(targetURL)
    \/ \E name \in CookieNames \cup {"srv"}, targetURL \in URLs :
          GetCookie(name, targetURL)

SpecCookies == InitCookies /\ [][NextCookies]_vars

----------------------------------------------------------------------------
(* Properties *)

\* a request method has returned to its caller
Returned == pc = "idle" /\ ret.op \in Methods

\* the validation of executeRequest before the retry loop lets request pass
PassesValidation(request) ==
    /\ TrimSpace(request.Url) # ""
    /\ buildURL(request.Url, request.Params).err = ""
    /\ \A fb \in formatBody(request.Headers, request.Body) : fb.err = ""

\* no header key of request is empty or blank
HeaderKeysUsable(request) ==
    \A k \in Keys(request.Headers) : TrimSpace(k) # ""

Max(a, b) == IF a >= b THEN a ELSE b

\* every Client.Do of the call failed with the transport error m
AllDoFailedWith(m) ==
    \A i \in 1..Len(hist.dos) : hist.dos[i] = [kind |-> "do", msg |-> m]

\* C1: when the transport fails the first N attempts of a request call and
\* answers attempt N+1, and the retry budget is at least N+1, the call
\* returns the successful response, with an empty error, after exactly N+1
\* calls of the transport.
C1_SuccessAfterNFailures ==
    (/\ Returned
     /\ ~ret.afterClose
     /\ PassesValidation(ret.request)
     /\ HeaderKeysUsable(ret.request)
     /\ MaxRetries >= server.failN + 1)
    => /\ ret.resp.Error = ""
       /\ ret.resp.StatusCode \in StatusCodes
       /\ ret.resp.Body = "body"
       /\ Len(hist.dos) = server.failN + 1
       /\ \A i \in 1..server.failN : hist.dos[i].kind # "ok"
       /\ hist.dos[server.failN + 1].kind = "ok"

C1_Witness ==
    /\ Returned
    /\ server.failN = 2
    /\ MaxRetries = 3
    /\ ret.resp.Error = ""
    /\ Len(hist.dos) = 3

\* C2 as claimed: with a retry budget of 3 and a transport that fails every
\* attempt with message m, the error returned is "max retries (3) exceeded: "
\* followed directly by m.
C2_Original ==
    \A m \in {"boom", "EOF"} :
        (/\ Returned
         /\ MaxRetries = 3
         /\ hist.exhausted
         /\ Len(hist.dos) = 3
         /\ AllDoFailedWith(m))
        => ret.resp.Error = "max retries (3) exceeded: " \o m

\* C2 as the code has it: with a retry budget of 3 and a transport that
\* fails every attempt with message m, the error returned is
\* "max retries (3) exceeded: Request error: " followed by m: handleResponse
\* puts "Request error: " before the transport's message.
C2_RetriesExceededMessage ==
    \A m \in {"boom", "EOF"} :
        (/\ Returned
         /\ MaxRetries = 3
         /\ hist.exhausted
         /\ Len(hist.dos) = 3
         /\ AllDoFailedWith(m))
        => ret.resp.Error = "max retries (3) exceeded: Request error: " \o m

C2_Witness ==
    /\ Returned
    /\ MaxRetries = 3
    /\ hist.exhausted
    /\ Len(hist.dos) = 3
    /\ AllDoFailedWith("boom")
    /\ ret.resp.Error = "max retries (3) exceeded: Request error: boom"

\* C3: a request call that fails a validation made before the network is
\* reached (unusable session, empty or unparsable URL, empty or blank header
\* key, body encoding failure) returns at once for every retry budget: the
\* headers are formatted at most once, the transport is not called, no
\* backoff is slept and the error is not rewrapped as retries exceeded.
C3_ValidationNeverRetried ==
    (/\ Returned
     /\ \/ ret.afterClose
        \/ ~PassesValidation(ret.request)
        \/ ~HeaderKeysUsable(ret.request))
    => /\ hist.dos = <<>>
       /\ hist.sleeps = <<>>
       /\ hist.nFormat <= 1
       /\ ~hist.exhausted

\* C4: once Close has returned, no later operation calls the transport or
\* its cookie store.
C4_NoAccessAfterClose ==
    /\ (pc = "idle" /\ ret.afterClose)
            => (hist.dos = <<>> /\ hist.nStore = 0)
    /\ (pc # "idle" /\ call.afterClose) => hist.dos = <<>>

C4_Witness ==
    /\ Returned
    /\ ret.afterClose
    /\ ret.request.Url = "https://a.test/x"
    /\ hist.dos = <<>>

InvalidSession == "session or client is nil"

\* C5 as claimed: after Close has returned, every operation, GetCookie and a
\* second Close included, reports an InvalidSession failure to its caller.
C5_Original ==
    (pc = "idle" /\ ret.afterClose)
    => IF ret.op \in Methods THEN ret.resp.Error = InvalidSession
       ELSE ret.err = InvalidSession

\* C5 as the code has it: after Close has returned, the request methods
\* return a Response whose error is InvalidSession, and SetCookies,
\* SetCookiesWithOptions, SetProxy, ClearCookies and GetCookies return the
\* InvalidSession error; GetCookie returns no cookie and a second Close
\* returns nil, neither reporting a failure.
C5_AfterCloseResults ==
    (pc = "idle" /\ ret.afterClose)
    => CASE ret.op \in Methods ->
                /\ ret.resp = ErrorResponse(InvalidSession)
                /\ ret.err = ""
         [] ret.op \in {"SetCookies", "SetCookiesWithOptions", "SetProxy",
                        "ClearCookies", "GetCookies"} ->
                /\ ret.err = InvalidSession
                /\ ret.cookies = <<>>
         [] ret.op = "GetCookie" -> ret.cookie = NoCookie /\ ret.err = ""
         [] ret.op = "Close" -> ret.err = ""
         [] OTHER -> FALSE

C5_Witness ==
    /\ pc = "idle"
    /\ ret.afterClose
    /\ ret.op = "Close"
    /\ ret.err = ""
    /\ Client = "nil"

\* C6: on a usable session ClearCookies followed at once by GetCookies, for
\* any target URL, returns an empty list and no error.
C6_ClearThenGetIsEmpty ==
    (pc = "idle" /\ ret.op = "GetCookies" /\ ret.readAfterClear)
    => (ret.cookies = <<>> /\ ret.err = "")

C6_Witness ==
    /\ pc = "idle"
    /\ ret.op = "GetCookies"
    /\ ret.readAfterClear
    /\ ret.cookies = <<>>
    /\ hist.nStore = 1

\* C7: in every Response of a request method, also the one the retry loop
\* keeps as its last response, a non-empty error field comes with status
\* code 0 and an empty body.
C7_ErrorMeansEmptyResponse ==
    \A r \in {ret.resp, call.lastResponse} :
        r.Error # "" => (r.StatusCode = 0 /\ r.Body = "")

C7_Witness ==
    /\ Returned
    /\ hist.exhausted
    /\ \E i \in 1..Len(hist.dos) : hist.dos[i].kind = "read"
    /\ ret.resp.Error # ""
    /\ ret.resp.StatusCode = 0

\* C8: for every configured retry budget b, a request call that passes the
\* validation of the executor makes at least 1 and at most max(1, b)
\* attempts, and exactly one when b <= 0.
C8_AttemptsBounded ==
    /\ (Returned /\ ~ret.afterClose /\ PassesValidation(ret.request))
       => /\ Len(hist.errs) >= 1
          /\ Len(hist.errs) <= Max(1, MaxRetries)
          /\ MaxRetries <= 0 => Len(hist.errs) = 1
    /\ Len(hist.errs) <= Max(1, MaxRetries)

C8_Witness ==
    /\ Returned
    /\ MaxRetries = 0
    /\ PassesValidation(ret.request)
    /\ Len(hist.errs) = 1
    /\ hist.exhausted

\* the failed attempts of the call that were not the last allowed one
\* (attempts are numbered from 0, errs from 1)
FailedBeforeLast ==
    {i \in 1..Len(hist.errs) :
        hist.errs[i] # "" /\ i - 1 < Max(1, MaxRetries) - 1}

C10_ExponentialBackoff ==
    \A i \in 2..Len(hist.sleeps) : hist.sleeps[i] = 2 * hist.sleeps[i - 1]

\* the keys of a header map, in the order the caller wrote them
WrittenKeys(headers) ==
    [i \in 1..Len(headers.entries) |-> headers.entries[i][1]]

\* C11: for every header map of the caller, the Header-Order list that
\* formatHeaders attaches lists the caller's keys, each once and with its
\* casing, in the order the caller wrote them.
C11_OrderIsInsertionOrder ==
    (fx.fn = "formatHeaders" /\ fx.fh.err = "")
    => fx.fh.order = WrittenKeys(fx.headers)

\* the session default of a reserved header key
SessionDefault(key) ==
    CASE ToLower(key) = "user-agent" -> UserAgent
      [] ToLower(key) = "sec-ch-ua" -> SecChUa
      [] ToLower(key) = "sec-ch-ua-platform" -> SecChUaPlatform

\* C12: formatHeaders gives an entry whose lower-cased key is user-agent,
\* sec-ch-ua or sec-ch-ua-platform and whose value is "" or "default" the
\* session's default for that key, and gives every other entry its own
\* value; every entry of the map is formatted, under its own key.
C12_ReservedDefaults ==
    (fx.fn = "formatHeaders" /\ fx.fh.err = "")
    => /\ Len(fx.fh.values) = Len(fx.headers.entries)
       /\ \A i \in 1..Len(fx.headers.entries) :
            LET key == fx.headers.entries[i][1]
                value == fx.headers.entries[i][2]
                expected ==
                    IF /\ ToLower(key) \in {"user-agent", "sec-ch-ua",
                                           "sec-ch-ua-platform"}
                       /\ value \in {"", "default"}
                    THEN SessionDefault(key)
                    ELSE value
            IN \E j \in 1..Len(fx.fh.values) :
                    fx.fh.values[j] = <<key, expected>>

C12_Witness ==
    /\ fx.fn = "formatHeaders"
    /\ fx.fh.err = ""
    /\ fx.headers.entries = << <<"User-Agent", "default">>,
                               <<"sec-ch-ua", "">>,
                               <<"accept", "default">> >>
    /\ \E j \in 1..3 : fx.fh.values[j] = <<"accept", "default">>
    /\ \E j \in 1..3 : fx.fh.values[j] = <<"sec-ch-ua", sech_ua>>

\* the content-type entries of a sequence of (key, value) pairs
ContentTypeEntries(pairs) ==
    {pairs[i] : i \in {j \in 1..Len(pairs) :
                          ToLower(pairs[j][1]) = "content-type"}}

\* C13: when the body encoder resolved an encoding other than multipart,
\* the content-type headers handed to the transport are those the caller
\* declared, key and value, and there is none when the caller declared none.
C13_NonMultipartKeepsContentType ==
    (/\ pc = "do"
     /\ ~Contains(call.contentType, "multipart/form-data"))
    => /\ ContentTypeEntries(call.req.Header.values)
            = ContentTypeEntries(call.given.Headers.entries)
       /\ call.request.Headers = call.given.Headers

C13_Witness ==
    /\ pc = "do"
    /\ call.contentType = "application/json"
    /\ call.given.Headers.entries = << <<"Content-Type", "application/json">> >>
    /\ call.req.Header.values = << <<"Content-Type", "application/json">> >>

\* C14: when the resolved content-type is multipart, the headers handed to
\* the transport hold exactly one content-type header, compared without
\* regard to case, and its value is the generated content-type with the
\* boundary.
C14_OneMultipartContentType ==
    (/\ pc = "do"
     /\ Contains(call.contentType, "multipart/form-data"))
    => /\ Cardinality({i \in 1..Len(call.req.Header.values) :
                ToLower(call.req.Header.values[i][1]) = "content-type"}) = 1
       /\ \A e \in ContentTypeEntries(call.req.Header.values) :
                e[2] = call.contentType

\* how many times the pair p occurs in a sequence of pairs
Count(pairs, p) == Cardinality({i \in 1..Len(pairs) : pairs[i] = p})

\* the entries of an extra-parameter map, as (key, value) pairs
ParamPairs(params) ==
    [i \in 1..Len(params.entries) |->
        <<Chars(params.entries[i][1]), Chars(params.entries[i][2])>>]

\* the entries of an extra-parameter map whose key is not empty or blank
UsableParamPairs(params) ==
    ParamPairs(MapOf(SelectSeq(params.entries,
                               LAMBDA e : TrimSpace(e[1]) # "")))

\* the query of the URL buildURL returned holds, as a multiset, the pairs of
\* the base URL's query and the pairs `added`
QueryHoldsUnion(added) ==
    LET result == ParseQuery(fx.built.RawQuery)
        original == ParseQuery(ParseURL(fx.baseURL).RawQuery)
    IN \A p \in {original[i] : i \in 1..Len(original)}
                \cup {added[i] : i \in 1..Len(added)} :
            Count(result, p) >= Count(original, p) + Count(added, p)

\* C15 as claimed: for every valid base URL U and extra-parameter map P, the
\* query of the URL buildURL returns, parsed again, holds as a multiset the
\* parameters of U's query and all entries of P, a key present in both
\* yielding both values.
C15_Original ==
    (fx.fn = "buildURL" /\ fx.built.err = "")
    => QueryHoldsUnion(ParamPairs(fx.params))

\* C15 as the code has it: for every valid base URL U and extra-parameter
\* map P, the query of the URL buildURL returns, parsed again, holds as a
\* multiset the parameters of U's query and the entries of P whose key is
\* not empty or blank, a key present in both yielding both values; an entry
\* of P with an empty or blank key is skipped.
C15_QueryUnion ==
    (fx.fn = "buildURL" /\ fx.built.err = "")
    => QueryHoldsUnion(UsableParamPairs(fx.params))

C15_Witness ==
    /\ fx.fn = "buildURL"
    /\ fx.built.err = ""
    /\ fx.baseURL = "https://a.test/x?q=1&a=a+b&q=%26"
    /\ fx.params.entries = << <<"q", "x&y=z">>, <<" ", "1">> >>
    /\ Count(ParseQuery(fx.built.RawQuery), <<Chars("q"), Chars("x&y=z")>>) = 1
    /\ Count(ParseQuery(fx.built.RawQuery), <<Chars("q"), Chars("1")>>) = 1

\* C16: whenever formatBody succeeds on a body, the content-type it returns,
\* declared as the content-type header of the same body, selects the encoder
\* that produced it.
C16_ContentTypeRoundTrip ==
    (fx.fn = "formatBody" /\ fx.body.kind # "nil" /\ fx.fb.err = "")
    => \A again \in DeclaredContentTypes(
                        MapOf(<< <<"Content-Type", fx.fb.contentType>> >>)) :
            Branch(ResolvedContentType(again, fx.body))
                = Branch(ResolvedContentType(fx.declared, fx.body))

C16_Witness ==
    /\ fx.fn = "formatBody"
    /\ fx.fb.err = ""
    /\ fx.declared = "multipart/form-data"
    /\ fx.fb.contentType = "multipart/form-data; boundary=b1"

\* the encoder C17 names for a body and the content-type declared for it
\* ("" = none declared)
ClaimedBranch(declared, body) ==
    LET resolved ==
            IF declared # "" THEN declared
            ELSE IF body.kind = "string" THEN "text/plain"
            ELSE "application/json"
    IN IF Contains(resolved, "application/x-www-form-urlencoded") THEN "form"
       ELSE IF Contains(resolved, "text/plain") THEN "text"
       ELSE IF Contains(resolved, "multipart/form-data") THEN "multipart"
       ELSE "json"

\* C17: for a body that is not absent formatBody resolves the content-type
\* to the declared one or, none being declared, to plain text for a string
\* and JSON otherwise; it then takes the first of form-urlencoded, plain
\* text, multipart that the content-type names, else JSON; form-urlencoded
\* and multipart fail unless the body is a map of strings, plain text fails
\* unless it is a string.  An absent body gives no stream and no
\* content-type.
C17_BranchSelection ==
    fx.fn = "formatBody"
    => IF fx.body.kind = "nil"
       THEN fx.fb = [reader |-> "<nil>", contentType |-> "", err |-> ""]
       ELSE LET branch == ClaimedBranch(fx.declared, fx.body) IN
            CASE branch = "form" ->
                    IF fx.body.kind # "map"
                    THEN fx.fb.err = "body must be map[string]string for application/x-www-form-urlencoded"
                    ELSE /\ fx.fb.err = ""
                         /\ fx.fb.contentType
                                = "application/x-www-form-urlencoded"
              [] branch = "text" ->
                    IF fx.body.kind # "string"
                    THEN fx.fb.err = "body must be string for text/plain"
                    ELSE /\ fx.fb.err = ""
                         /\ fx.fb.contentType = "text/plain"
                         /\ fx.fb.reader = fx.body.str
              [] branch = "multipart" ->
                    IF fx.body.kind # "map"
                    THEN fx.fb.err = "body must be map[string]string for multipart/form-data"
                    ELSE /\ fx.fb.err = ""
                         /\ \E b \in Boundaries :
                                fx.fb.contentType
                                    = "multipart/form-data; boundary=" \o b
              [] OTHER ->
                    IF fx.body.kind = "chan"
                    THEN fx.fb.err # ""
                    ELSE /\ fx.fb.err = ""
                         /\ fx.fb.contentType = "application/json"

C17_Witness ==
    /\ fx.fn = "formatBody"
    /\ fx.declared = "text/plain; application/x-www-form-urlencoded"
    /\ fx.body.kind = "map"
    /\ fx.fb.err = ""
    /\ fx.fb.contentType = "application/x-www-form-urlencoded"

\* C18: when every allowed attempt of a request call fails, the attempts
\* failing with different messages or not, the response returned is built
\* from the last attempt: its error is "max retries (n) exceeded: " followed
\* by the error of the last attempt, n being the number of attempts made,
\* max(1, budget).
C18_LastAttemptWrapped ==
    (Returned /\ hist.exhausted)
    => /\ Len(hist.errs) = Max(1, MaxRetries)
       /\ ret.resp =
            ErrorResponse("max retries (" \o ToString(Len(hist.errs))
                          \o ") exceeded: " \o hist.errs[Len(hist.errs)])

C18_Witness ==
    /\ Returned
    /\ hist.exhausted
    /\ MaxRetries = 2
    /\ hist.errs = <<"Request error: boom", "Request error: EOF">>
    /\ ret.resp.Error = "max retries (2) exceeded: Request error: EOF"

\* the errors of the attempts that fail after the request was dispatched
DispatchErrors ==
    {"Request error: boom", "Request error: EOF",
     "Error reading response body: unexpected EOF"}

C20_CallerHeadersUntouched ==
    Returned => ret.request.Headers = ret.given.Headers

RECURSIVE Listed(_)
\* the cookies of the transport's list whose name is not empty or blank, in
\* the transport's order
Listed(stored) ==
    IF stored = <<>> THEN <<>>
    ELSE (IF TrimSpace(Head(stored).Name) = "" THEN <<>>
          ELSE <<Head(stored)>>)
         \o Listed(Tail(stored))

\* C21: on a usable session GetCookies(url) returns the transport's cookies
\* for url in the transport's order, without those whose name is empty or
\* blank; GetCookie(name, url), for a name that is not blank, returns the
\* first cookie of that list whose name is exactly name, and nothing when
\* the list has none.
C21_FirstMatchOfListed ==
    /\ (pc = "idle" /\ ret.op = "GetCookies" /\ ~ret.afterClose)
       => /\ ret.err = ""
          /\ ret.cookies = Listed(jar[ret.args[1]])
          /\ \A i \in 1..Len(ret.cookies) :
                TrimSpace(ret.cookies[i].Name) # ""
    /\ (/\ pc = "idle"
        /\ ret.op = "GetCookie"
        /\ ~ret.afterClose
        /\ TrimSpace(ret.args[1]) # "")
       => LET listed == Listed(jar[ret.args[2]])
              hits == {i \in 1..Len(listed) : listed[i].Name = ret.args[1]}
          IN IF hits = {} THEN ret.cookie = NoCookie
             ELSE \E i \in hits :
                    /\ \A j \in hits : i <= j
                    /\ ret.cookie = listed[i]

C21_Witness ==
    /\ pc = "idle"
    /\ ret.op = "GetCookie"
    /\ ret.args = <<"sid", "https://a.test/x">>
    /\ jar["https://a.test/x"] = << [Name |-> " ", Value |-> "1"],
                                    [Name |-> "sid", Value |-> "2"],
                                    [Name |-> "sid", Value |-> "1"] >>
    /\ ret.cookie = [Name |-> "sid", Value |-> "2"]

\* C22: in a request call with a body every attempt hands the transport the
\* request of the first attempt, with the whole body the encoder produced:
\* no retry sends a body stream that was already read, is empty or is cut
\* short.
C22_RetrySendsWholeBody ==
    \A i \in 1..Len(hist.sent) : hist.sent[i] = hist.sent[1]

\* C23: however Close on one thread interleaves with a request call in
\* flight on another thread of the same session, no attempt calls the
\* transport through a released handle: Client.Do is reached only with a
\* handle that is not nil (pc is "panic" once s.Client.Do was called on the
\* nil handle).
C23_TransportOnlyWhileValid == pc # "panic"

\* C24: provided every call of the transport returns, a request call
\* returns a Response to its caller, for every retry budget and every
\* pattern of transport failures, and it never makes more than
\* max(1, budget) attempts: the retry loop does not run forever.
C24_CallTerminates ==
    /\ [](Len(hist.errs) <= Max(1, MaxRetries))
    /\ (pc # "idle") ~> (Returned /\ Len(hist.errs) <= Max(1, MaxRetries))

C24_Witness ==
    /\ Returned
    /\ hist.exhausted
    /\ MaxRetries = MaxBudget
    /\ server.failN = MaxBudget
    /\ Len(hist.dos) = MaxBudget

\* C25: the encoder and the resolved content-type formatBody chooses are
\* fixed by the header map and the body: two calls with equal header maps
\* and equal bodies resolve the same content-type and take the same
\* encoder, also when several keys of the map lower-case to content-type
\* and carry different values.
C25_SameInputsSameBranch ==
    (fx.fn = "formatBody twice" /\ fx.body.kind # "nil")
    => /\ ResolvedContentType(fx.declared, fx.body)
            = ResolvedContentType(fx.declared2, fx.body)
       /\ Branch(ResolvedContentType(fx.declared, fx.body))
            = Branch(ResolvedContentType(fx.declared2, fx.body))
       /\ fx.fb.err = fx.fb2.err

====
